---------------------------- MODULE Spec2Model ----------------------------
(*************************************************************************)
(* Perceptron Learning Algorithm, src/perceptron.py (class Perceptron).  *)
(*                                                                       *)
(* Numbers.  The program computes on Python floats.  The model keeps     *)
(* every weight and the learning rate as an integer count of the unit    *)
(* 1/Scale, and every feature and label as an integer, so that           *)
(*     w_j + lr * error * x_j                                            *)
(* is exact: (w/Scale) + (lr/Scale) * error * x = (w + lr*error*x)/Scale.*)
(* The sign of the weighted sum, which is all the activation reads, is   *)
(* the sign of the integer sum.  random.random() draws from [0, 1): the  *)
(* integers 0 .. Scale-1 in units of 1/Scale.                            *)
(*                                                                       *)
(* Indices.  i, k and _iterations count as in the code (from 0); a       *)
(* Python list element a[i] is the sequence element a[i + 1].            *)
(*************************************************************************)
EXTENDS Integers, Sequences, FiniteSets

\* ----------------------------------------------------------------- bounds
\* Weights and learning rates are multiples of 1/Scale.
Scale == 2
\* Longest training set with as many labels as samples.
MaxSamples == 3
\* Longest sample list of a call whose labels do not match its samples.
MaxBad == 2
\* Largest epoch cap (n_iters) of an instance.
MaxIters == 5
\* Epochs within which every separable training set of the domain converges.
ConvergenceEpochs == 4

\* ---------------------------------------------------------------- domains
\* Values of the one feature of a sample, and the two class labels.
FeatureValues == {-1, 0, 1}
Labels == {-1, 1}
\* learning_rate, in units of 1/Scale (positive).
LearningRates == {1, 2}
\* n_iters (at least 1).
IterCaps == {1, 2, MaxIters}
\* Feature vectors: one feature each.
Samples == {<<v>> : v \in FeatureValues}

SeqsOf(S, n) == [1..n -> S]
SeqsUpTo(S, lo, hi) == UNION {SeqsOf(S, n) : n \in lo..hi}

\* Calls fit(X, y) with len(X) = len(y) >= 1.
WellFormedCalls ==
    UNION {SeqsOf(Samples, n) \X SeqsOf(Labels, n) : n \in 1..MaxSamples}
\* Calls fit(X, y) with X empty, or with len(y) # len(X).
MalformedCalls ==
    {c \in SeqsUpTo(Samples, 0, MaxBad) \X SeqsUpTo(Labels, 0, MaxBad + 1) :
        Len(c[1]) = 0 \/ Len(c[1]) # Len(c[2])}
Calls == WellFormedCalls \cup MalformedCalls

\* Inputs of predict: any length from 0 to one more than a weight vector's.
PredictInputs == SeqsUpTo(FeatureValues, 0, 3)
\* Weight vectors an instance can hold when predict is called.
HeldWeights == SeqsOf(-Scale..Scale, 2)

\* ------------------------------------------------------------------ state
VARIABLES
    lr,           \* self.lr
    n_iters,      \* self.n_iters
    weights,      \* self.weights; <<>> while the attribute is not set
    _iterations,  \* self._iterations
    pc,           \* "idle" | "for" (line 69) | "update" (line 102)
    X,            \* fit's X after line 67 (augmented samples)
    y,            \* fit's y
    k,            \* iterations of the for loop of line 69 taken so far
    i,            \* _update_weights' i
    all_classified_correctly,
    op,           \* the last call: "none" | "fit" | "predict"
    outcome,      \* how the last call ended: "none" | "returned" | an exception
    ret,          \* what the last predict returned (0: nothing)
    arg,          \* the argument of the last predict
    trainX,       \* the caller's samples
    trainY,       \* the caller's labels
    fitted,       \* history: fit has been called
    refit,        \* history: the most recent fit call found a nonzero counter
    lastEmpty,    \* history: the most recent fit call had no samples
    hist,         \* history: per epoch started by the most recent fit call
                  \* that got past line 63, whether a sample was misclassified
    wStart,       \* history: the weights when the last epoch started
    wEnd          \* history: the weights when the last epoch ended

vars == <<lr, n_iters, weights, _iterations, pc, X, y, k, i,
          all_classified_correctly, op, outcome, ret, arg, trainX, trainY,
          fitted, refit, lastEmpty, hist, wStart, wEnd>>

config == <<lr, n_iters, trainX, trainY>>
history == <<fitted, refit, lastEmpty, hist, wStart, wEnd>>

\* ---------------------------------------------------- the pure functions
RECURSIVE SumTo(_, _, _)
\* sum(X[i] * self.weights[i] for i in range(n))
SumTo(x, w, n) == IF n = 0 THEN 0 ELSE SumTo(x, w, n - 1) + x[n] * w[n]

\* _activation: 1 if z > 0 else -1
ActivationGE(z) == IF z >= 0 THEN 1 ELSE -1
Activation(z) == IF z > 0 THEN 1 ELSE -1

\* predict reads self.weights[i] for every i in range(len(X)): with no
\* weights attribute that is an AttributeError, with too few weights an
\* IndexError; an empty X reads nothing.
PredictError(x, w) ==
    IF Len(x) = 0 THEN "none"
    ELSE IF w = <<>> THEN "AttributeError"
    ELSE IF Len(x) > Len(w) THEN "IndexError"
    ELSE "none"

\* predict, when it raises nothing.
Predict(x, w) == Activation(SumTo(x, w, Len(x)))

\* X = [[1] + x for x in X]
Augment(Xin) == [s \in 1..Len(Xin) |-> <<1>> \o Xin[s]]

\* for j in range(len(X[i])): self.weights[j] += self.lr * error * X[i][j]
UpdatedWeightsUnscaled(w, rate, error, x) ==
    [j \in 1..Len(w) |->
        IF j <= Len(x) THEN w[j] + error * x[j] ELSE w[j]]
UpdatedWeightsNoBias(w, rate, error, x) ==
    [j \in 1..Len(w) |->
        IF 1 < j /\ j <= Len(x) THEN w[j] + rate * error * x[j] ELSE w[j]]
UpdatedWeights(w, rate, error, x) ==
    [j \in 1..Len(w) |->
        IF j <= Len(x) THEN w[j] + rate * error * x[j] ELSE w[j]]

\* if error != 0: all_classified_correctly = False
FlagLastOnly(flag, error) == error = 0
FlagAfter(flag, error) == IF error # 0 THEN FALSE ELSE flag

\* for _ in range(self.n_iters): another iteration after k of them
LoopContinuesOffByOne(taken, cap) == taken <= cap
LoopContinues(taken, cap) == taken < cap

\* if not self._update_weights(X, y): break
BreaksWhenUpdated(updated) == updated
BreaksNever(updated) == FALSE
Breaks(updated) == ~updated

\* self._iterations = 0 (line 64)
KeepIterations(old) == old
ResetIterations(old) == 0

\* ------------------------------------------------------------------- Init
\* A constructed instance (lines 30-32) and the caller's training data.
Init ==
    /\ lr \in LearningRates
    /\ n_iters \in IterCaps
    /\ \E c \in Calls : trainX = c[1] /\ trainY = c[2]
    /\ weights = <<>>
    /\ _iterations = 0
    /\ pc = "idle"
    /\ X = <<>>
    /\ y = <<>>
    /\ k = 0
    /\ i = 0
    /\ all_classified_correctly = TRUE
    /\ op = "none"
    /\ outcome = "none"
    /\ ret = 0
    /\ arg = <<>>
    /\ fitted = FALSE
    /\ refit = FALSE
    /\ lastEmpty = FALSE
    /\ hist = <<>>
    /\ wStart = <<>>
    /\ wEnd = <<>>

\* ---------------------------------------------------------------- actions
\* fit(Xin, yin), lines 63-67.  X[0] of an empty list raises IndexError
\* before anything is assigned.
FitCall(Xin, yin) ==
    /\ pc = "idle"
    /\ op' = "fit"
    /\ fitted' = TRUE
    /\ refit' = (_iterations # 0)
    /\ ret' = 0
    /\ arg' = <<>>
    /\ IF Len(Xin) = 0
       THEN /\ outcome' = "IndexError"
            /\ lastEmpty' = TRUE
            /\ UNCHANGED <<weights, _iterations, pc, X, y, k, i,
                           all_classified_correctly, hist, wStart, wEnd>>
       ELSE /\ \E w0 \in SeqsOf(0..(Scale - 1), Len(Xin[1]) + 1) :
                  weights' = w0
            /\ _iterations' = ResetIterations(_iterations)
            /\ X' = Augment(Xin)
            /\ y' = yin
            /\ k' = 0
            /\ i' = 0
            /\ all_classified_correctly' = TRUE
            /\ pc' = "for"
            /\ outcome' = "none"
            /\ lastEmpty' = FALSE
            /\ hist' = <<>>
            /\ wStart' = <<>>
            /\ wEnd' = <<>>
    /\ UNCHANGED config

\* The caller fits its training data, or calls fit with no samples.
Fit == \E Xin \in {trainX, <<>>} : FitCall(Xin, trainY)

\* Line 69: the for loop takes another iteration (line 70, and line 71's
\* call enters _update_weights, line 100) or is exhausted and fit returns.
LoopHead ==
    /\ pc = "for"
    /\ IF LoopContinues(k, n_iters)
       THEN /\ k' = k + 1
            /\ _iterations' = _iterations + 1
            /\ all_classified_correctly' = TRUE
            /\ i' = 0
            /\ pc' = "update"
            /\ hist' = Append(hist, FALSE)
            /\ wStart' = weights
            /\ UNCHANGED outcome
       ELSE /\ pc' = "idle"
            /\ outcome' = "returned"
            /\ UNCHANGED <<k, _iterations, all_classified_correctly, i,
                           hist, wStart>>
    /\ UNCHANGED <<config, weights, X, y, op, ret, arg, fitted, refit,
                   lastEmpty, wEnd>>

\* Lines 102-109 for one i: predict, the error, the update.
Sample ==
    /\ pc = "update"
    /\ i < Len(X)
    /\ IF PredictError(X[i + 1], weights) # "none"
       THEN /\ outcome' = PredictError(X[i + 1], weights)
            /\ pc' = "idle"
            /\ UNCHANGED <<weights, i, all_classified_correctly, hist>>
       ELSE IF i >= Len(y)
       THEN /\ outcome' = "IndexError"
            /\ pc' = "idle"
            /\ UNCHANGED <<weights, i, all_classified_correctly, hist>>
       ELSE LET y_hat == Predict(X[i + 1], weights)
                error == y[i + 1] - y_hat
            IN /\ weights' = IF error # 0
                             THEN UpdatedWeights(weights, lr, error, X[i + 1])
                             ELSE weights
               /\ all_classified_correctly' =
                      FlagAfter(all_classified_correctly, error)
               /\ i' = i + 1
               /\ hist' = [hist EXCEPT ![Len(hist)] = @ \/ y_hat # y[i + 1]]
               /\ UNCHANGED <<pc, outcome>>
    /\ UNCHANGED <<config, _iterations, X, y, k, op, ret, arg, fitted,
                   refit, lastEmpty, wStart, wEnd>>

\* Line 111 and lines 71-72: _update_weights returns whether a sample was
\* misclassified; fit breaks out of the loop, and returns, when none was.
UpdateReturn ==
    /\ pc = "update"
    /\ i = Len(X)
    /\ IF Breaks(~all_classified_correctly)
       THEN /\ pc' = "idle"
            /\ outcome' = "returned"
       ELSE /\ pc' = "for"
            /\ UNCHANGED outcome
    /\ wEnd' = weights
    /\ UNCHANGED <<config, weights, _iterations, X, y, k, i,
                   all_classified_correctly, op, ret, arg, fitted, refit,
                   lastEmpty, hist, wStart>>

\* predict(x) on an instance that is not inside fit, lines 130-131.
PredictCall ==
    /\ pc = "idle"
    /\ op' = "predict"
    /\ \E x \in PredictInputs :
          /\ arg' = x
          /\ outcome' = IF PredictError(x, weights) = "none"
                        THEN "returned" ELSE PredictError(x, weights)
          /\ ret' = IF PredictError(x, weights) = "none"
                    THEN Predict(x, weights) ELSE 0
    /\ UNCHANGED <<config, weights, _iterations, pc, X, y, k, i,
                   all_classified_correctly, history>>

Next == Fit \/ LoopHead \/ Sample \/ UpdateReturn

\* Training: an instance is constructed, then fitted any number of times.
Spec == Init /\ [][Next]_vars

\* Prediction: an instance as constructed, or as a fit on one-feature
\* samples left it (two weights, a counter between 1 and n_iters), on
\* which predict is called any number of times.
InitPredict ==
    /\ lr \in LearningRates
    /\ n_iters \in IterCaps
    /\ trainX = <<>>
    /\ trainY = <<>>
    /\ \/ /\ weights = <<>>
          /\ _iterations = 0
          /\ fitted = FALSE
          /\ op = "none"
          /\ outcome = "none"
       \/ /\ weights \in HeldWeights
          /\ _iterations \in 1..n_iters
          /\ fitted = TRUE
          /\ op = "fit"
          /\ outcome = "returned"
    /\ pc = "idle"
    /\ X = <<>>
    /\ y = <<>>
    /\ k = 0
    /\ i = 0
    /\ all_classified_correctly = TRUE
    /\ ret = 0
    /\ arg = <<>>
    /\ refit = FALSE
    /\ lastEmpty = FALSE
    /\ hist = <<>>
    /\ wStart = <<>>
    /\ wEnd = <<>>

NextPredict == PredictCall

SpecPredict == InitPredict /\ [][NextPredict]_vars

\* ----------------------------------------------------- what the claims use
\* The most recent call was a fit, and it has ended.
FitEnded == pc = "idle" /\ op = "fit"
\* The most recent call was fit(trainX, trainY), and it returned normally.
FitReturned == FitEnded /\ ~lastEmpty /\ outcome = "returned"
\* The caller's data: at least one sample, and one label per sample.
WellFormed == Len(trainX) >= 1 /\ Len(trainY) = Len(trainX)

RECURSIVE Dot(_, _, _)
\* b[1]*c[1] + ... + b[n]*c[n]
Dot(b, c, n) == IF n = 0 THEN 0 ELSE b[n] * c[n] + Dot(b, c, n - 1)
\* The weighted sum of a sample under weights w: the bias w[1], plus the
\* features against the weights after it.
Score(w, x) == w[1] + Dot(x, Tail(w), Len(x))
\* The class the weights w give sample x: +1 above 0, -1 otherwise.
ClassOf(w, x) == IF Score(w, x) > 0 THEN 1 ELSE -1
\* The training samples that w misclassifies.
Misclassified(w) ==
    {s \in 1..Len(trainX) : ClassOf(w, trainX[s]) # trainY[s]}
\* A separating hyperplane exists for the caller's data.  For features in
\* -1..1 a threshold at -1/2 or +1/2 (weights <<1, 2>>, <<-1, 2>> and their
\* negations) or a constant (<<1, 0>>, <<-1, 0>>) separates whatever can be.
Separable ==
    \E w \in SeqsOf(-2..2, 2) :
        \A s \in 1..Len(trainX) : trainY[s] * Score(w, trainX[s]) > 0
\* The steps fit still has to take, at most.
Variant ==
    IF pc = "idle" THEN 0
    ELSE (n_iters - k) * (Len(X) + 2) + 1
         + (IF pc = "update" THEN Len(X) - i + 1 ELSE 0)

\* ------------------------------------------------------------------ claims
\* C1: the iteration counter never exceeds max_iterations (n_iters), at
\* any point of a fit or after it, and after a fit that returned normally
\* on a non-empty sample list it is at least 1.
C1_EpochCap ==
    /\ _iterations <= n_iters
    /\ k <= n_iters
    /\ FitReturned => _iterations >= 1

\* C1 witness: a fit returned having used every one of the n_iters = MaxIters
\* epochs, the last of which still misclassified a sample.
C1_Witness ==
    /\ FitReturned
    /\ n_iters = MaxIters
    /\ _iterations = n_iters
    /\ hist[Len(hist)]

\* C2 as claimed: on separable data with labels in {-1, +1}, fit returns
\* with iterations < max_iterations and no training sample misclassified.
C2_Original ==
    (FitReturned /\ WellFormed /\ Separable)
        => (_iterations < n_iters /\ Misclassified(weights) = {})

\* C2 amended: on separable data every step of fit brings its return
\* nearer (fit terminates), and when max_iterations exceeds the epochs the
\* perceptron needs (ConvergenceEpochs in this domain) fit returns with
\* iterations < max_iterations and no training sample misclassified.
C2_Amended ==
    /\ [](pc # "idle" => (Variant > 0 /\ i <= Len(X)))
    /\ [][pc # "idle" => Variant' < Variant]_vars
    /\ []((FitReturned /\ WellFormed /\ Separable
             /\ n_iters > ConvergenceEpochs)
            => (_iterations < n_iters /\ Misclassified(weights) = {}))

\* C2 witness: a fit on separable data, with a cap above ConvergenceEpochs,
\* returned after ConvergenceEpochs epochs, having updated weights.
C2_Witness ==
    /\ FitReturned /\ WellFormed /\ Separable
    /\ n_iters > ConvergenceEpochs
    /\ _iterations = ConvergenceEpochs
    /\ hist[1]

\* C3: on data with no linear separator, fit raises no error, returns
\* after exactly max_iterations epochs, and leaves the weights as they
\* stood at the end of the last epoch.
C3_NonSeparable ==
    (FitEnded /\ ~lastEmpty /\ WellFormed /\ ~Separable)
        => /\ outcome = "returned"
           /\ _iterations = n_iters
           /\ Len(hist) = n_iters
           /\ weights = wEnd

\* C3 witness: the one-feature XOR pattern -1:+1, 0:-1, 1:+1, fitted under
\* the largest cap, with weights that moved in the last epoch.
C3_Witness ==
    /\ FitReturned
    /\ trainX = << <<-1>>, <<0>>, <<1>> >>
    /\ trainY = <<1, -1, 1>>
    /\ n_iters = MaxIters
    /\ weights # wStart

\* C4: predict returns -1 or +1, and +1 exactly when the weighted sum of
\* its input against the weights is above 0 (so a sum of exactly 0 gives
\* -1); a predict call leaves the weights and the iteration counter as
\* they were.
C4_Predict ==
    /\ []((op = "predict" /\ outcome = "returned")
            => /\ ret \in {-1, 1}
               /\ ret = 1 <=> Dot(arg, weights, Len(arg)) > 0)
    /\ [][op' = "predict"
            => (weights' = weights /\ _iterations' = _iterations)]_vars

\* C4 witness: predict returned -1 for an input as long as the weight
\* vector, not all zero, whose weighted sum is exactly 0.
C4_Witness ==
    /\ op = "predict" /\ outcome = "returned"
    /\ Len(arg) = Len(weights)
    /\ Len(arg) = 2
    /\ arg[1] # 0 /\ weights[1] # 0
    /\ Dot(arg, weights, Len(arg)) = 0
    /\ ret = -1

\* C5: a fit call with no samples, or with a number of labels other than
\* the number of samples, fails and does not return normally (any raised
\* exception is taken for the failure the claim asks for).
C5_BadInputFails ==
    (FitEnded /\ (lastEmpty \/ Len(trainY) # Len(trainX)))
        => outcome # "returned"

\* C6: after a fit, predict with an input whose length is not the weight
\* vector's fails and returns no label (any raised exception is taken for
\* the failure the claim asks for).
C6_LengthMismatchFails ==
    (op = "predict" /\ weights # <<>> /\ Len(arg) # Len(weights))
        => outcome # "returned"

\* C7 as claimed: when no call is running, iterations is the number of
\* epochs of the most recent fit call (none for a call that failed on an
\* empty sample list), and 0 before any fit call.  Stated for a caller
\* whose training data is well formed.
C7_Original ==
    (pc = "idle" /\ WellFormed) =>
        _iterations = (IF ~fitted \/ lastEmpty THEN 0 ELSE Len(hist))

\* C7 amended: iterations is the number of epochs started by the most
\* recent fit call that was given at least one sample (a fit call with no
\* samples fails before the reset and leaves the counter as it was); it
\* does not accumulate across calls, and it is 0 before any fit call.
C7_Amended ==
    /\ _iterations = Len(hist)
    /\ ~fitted => _iterations = 0

\* C7 witness: a second fit on a counter the first fit left nonzero has
\* returned.
C7_Witness ==
    /\ FitReturned
    /\ refit
    /\ _iterations >= 2

\* C8: the counter goes up by exactly one when an epoch starts, and at no
\* other step of a fit; an epoch is started only after an epoch that
\* misclassified a sample; fit returns straight after an epoch that
\* misclassified none, and goes back to the loop after one that did.
C8_Epochs ==
    /\ [](\A e \in 1..(Len(hist) - 1) : hist[e])
    /\ [][/\ (pc = "for" /\ pc' = "update")
              => /\ _iterations' = _iterations + 1
                 /\ hist # <<>> => hist[Len(hist)]
          /\ pc = "update" => _iterations' = _iterations
          /\ (pc = "update" /\ i = Len(X))
              => IF hist[Len(hist)]
                 THEN pc' = "for"
                 ELSE pc' = "idle" /\ outcome' = "returned"]_vars

\* C8 witness: a fit returned after an epoch that misclassified nothing,
\* which followed at least two that did, with epochs to spare.
C8_Witness ==
    /\ FitReturned
    /\ Len(hist) >= 3
    /\ ~hist[Len(hist)]
    /\ _iterations < n_iters

\* C9: the samples of an epoch are taken in their order, from the first;
\* each is predicted with the weights as the samples before it left them;
\* with error = label - prediction, a nonzero error adds
\* learning_rate * error * augmented_sample[j] to every weight j (the bias
\* with input 1), and an error of 0 leaves the weights as they are.
C9_UpdateRule ==
    [][/\ (pc = "for" /\ pc' = "update") => (i' = 0 /\ weights' = weights)
       /\ (pc = "update" /\ pc' = "update")
           => LET x == <<1>> \o trainX[i + 1]
                  error == trainY[i + 1] - ClassOf(weights, trainX[i + 1])
              IN /\ i' = i + 1
                 /\ weights' =
                      IF error = 0 THEN weights
                      ELSE [j \in 1..Len(weights) |->
                               weights[j] + lr * error * x[j]]]_vars

\* C9 witness: the first sample of an epoch was misclassified and changed
\* the weights; the second, which the weights of the epoch's start
\* classified correctly, was misclassified by the changed weights and
\* changed them again.
C9_Witness ==
    /\ pc = "update"
    /\ i = 2
    /\ ClassOf(wStart, trainX[1]) # trainY[1]
    /\ ClassOf(wStart, trainX[2]) = trainY[2]
    /\ LET w1 == [j \in 1..2 |->
                    wStart[j] + lr * 2 * trainY[1] * (<<1>> \o trainX[1])[j]]
       IN /\ ClassOf(w1, trainX[2]) # trainY[2]
          /\ weights # w1
          /\ weights # wStart

\* C10: a fit that returns with iterations < max_iterations leaves weights
\* that classify every training sample correctly, and its last epoch
\* changed no weight.
C10_EarlyReturn ==
    (FitReturned /\ _iterations < n_iters)
        => /\ \A s \in 1..Len(trainX) :
                  ClassOf(weights, trainX[s]) = trainY[s]
           /\ weights = wStart

\* C10 witness: a fit returned before its cap after epochs that changed
\* weights.
C10_Witness ==
    /\ FitReturned
    /\ _iterations < n_iters
    /\ _iterations >= 2
    /\ Len(trainX) = MaxSamples

=============================================================================
